---- MODULE Spec2Model ----
(***************************************************************************)
(* Model of handleEventsSequencerBatchAppended                             *)
(* (src/services/l1-ingestion/handlers/sequencer-batch-appended.ts):       *)
(* getExtraData, parseEvent, storeEvent and the helpers they call.         *)
(*                                                                         *)
(* Representation.  A Buffer is a sequence of bytes (0..255).  A hex       *)
(* string ('0x...') is the sequence of its hex digits (0..15), the '0x'    *)
(* prefix left implicit.  A nullable value is a tuple: << >> is null and   *)
(* <<x>> is the value x; the `type` tag, a string, uses "null".            *)
(***************************************************************************)
EXTENDS Integers, Sequences, FiniteSets, TLC

(* ------------------------------------------------------------------ *)
(* Bounds of the model                                                 *)
(* ------------------------------------------------------------------ *)

\* Most contexts a generated calldata declares.
MaxContexts == 2

\* Most transactions (sequenced + queued) the contexts of a generated calldata
\* declare in total.
MaxBatch == 3

\* Most companion events on the chain.
MaxLogs == 2

(* ------------------------------------------------------------------ *)
(* Program constants                                                   *)
(* ------------------------------------------------------------------ *)

\* calldata.slice(12, 15): where numContexts starts
NumContextsOffset == 12

\* 15 + 16 * i: where the context blocks start
ContextsOffset == 15

\* 15 + 16 * i: the size of a context block
ContextSize == 16

\* calldata.slice(offset, offset + 3): the size of a count or a length prefix
LenSize == 3

\* calldata.slice(offset + 6, offset + 11): the size of a timestamp / block number
StampSize == 5

\* gasLimit: 8_000_000, // Fixed to this currently.
FixedGasLimit == 8000000

\* reformattedSig.v += 35 + 2 * 10 // hardcode chainid 10 for now
ChainId == 10

\* TxType.EIP155 and TxType.EthSign, the markers the codec recognises
TxTypeEIP155 == 0

TxTypeEthSign == 1

SequencerTarget == "0x4200000000000000000000000000000000000005"

ZeroAddress == "0x0000000000000000000000000000000000000000"

NULL == << >>

Some(x) == <<x>>

TypeNull == "null"

(* ------------------------------------------------------------------ *)
(* Buffers, big-endian numbers, hex strings                            *)
(* ------------------------------------------------------------------ *)

Min(a, b) == IF a < b THEN a ELSE b

\* Buffer.slice(start, end): both ends are clamped to the buffer, never an error.
BufferSlice(buf, start, end) ==
  SubSeq(buf, Min(start, Len(buf)) + 1, Min(end, Len(buf)))

\* BigNumber.from(bytes).toNumber(): the big-endian value.  The empty buffer
\* hexlifies to '0x': the call then returns 0 or raises 'invalid BigNumber
\* string', as the ethers build decides (BigNumberMayRaise).
RECURSIVE BigEndianValue(_, _)
BigEndianValue(bytes, n) ==
  IF n = 0 THEN 0 ELSE 256 * BigEndianValue(bytes, n - 1) + bytes[n]

BigNumberFrom(bytes) == BigEndianValue(bytes, Len(bytes))

BigNumberMayRaise(bytes) == bytes = << >>

\* toHexString(buf): two hex digits per byte.
ToHexString(buf) ==
  [p \in 1..(2 * Len(buf)) |->
     IF p % 2 = 1 THEN buf[(p + 1) \div 2] \div 16 ELSE buf[p \div 2] % 16]

\* fromHexString(hex): one byte per complete pair of hex digits.
FromHexString(hex) ==
  [p \in 1..(Len(hex) \div 2) |-> 16 * hex[2 * p - 1] + hex[2 * p]]

(* ------------------------------------------------------------------ *)
(* parseSequencerBatchContext, parseSequencerBatchTransaction          *)
(* ------------------------------------------------------------------ *)

ParseSequencerBatchContext(calldata, offset) ==
  [numSequencedTransactions |->
     BigNumberFrom(BufferSlice(calldata, offset, offset + LenSize)),
   numSubsequentQueueTransactions |->
     BigNumberFrom(BufferSlice(calldata, offset + LenSize, offset + 2 * LenSize)),
   timestamp |->
     BigNumberFrom(BufferSlice(calldata, offset + 2 * LenSize,
                               offset + 2 * LenSize + StampSize)),
   blockNumber |->
     BigNumberFrom(BufferSlice(calldata, offset + 2 * LenSize + StampSize,
                               offset + ContextSize))]

\* Whether a BigNumber.from of parseSequencerBatchContext reads the empty buffer:
\* the last field read is the first to run out.
ContextMayRaise(calldata, offset) ==
  BigNumberMayRaise(BufferSlice(calldata, offset + 2 * LenSize + StampSize,
                                offset + ContextSize))

\* Whether the BigNumber.from of parseSequencerBatchTransaction reads the empty
\* buffer.
TransactionMayRaise(calldata, offset) ==
  BigNumberMayRaise(BufferSlice(calldata, offset, offset + LenSize))

ParseSequencerBatchTransaction(calldata, offset) ==
  LET transactionLength == BigNumberFrom(BufferSlice(calldata, offset, offset + LenSize))
  IN  BufferSlice(calldata, offset + LenSize, offset + LenSize + transactionLength)

(* ------------------------------------------------------------------ *)
(* The external libraries: ctcCoder (decode) and ethers (signatures)   *)
(* ------------------------------------------------------------------ *)

\* What the libraries answer for one transaction slice.  Their code is not part
\* of the handler, so every answer they can give is an input:
\*   decode  "ok"     ctcCoder.*.decode returned fields, with sig.v = v
\*           "throws" ctcCoder.*.decode raised
\*   crypto  "ok"     serializeTransaction / recoverAddress / parseTransaction
\*                    returned; recovered and from are the two addresses
\*           "throws" one of them raised
Addresses == {"0xaa", "0xbb"}

LibAnswer(decode, v, crypto, recovered, from) ==
  [decode |-> decode, v |-> v, crypto |-> crypto, recovered |-> recovered, from |-> from]

\* The library was not called (the slice is empty or its marker is unknown).
LibNotCalled == LibAnswer("none", 0, "none", "0xaa", "0xaa")

LibAnswersEIP155 ==
  { LibAnswer("throws", 0, "none", "0xaa", "0xaa"),
    LibAnswer("ok", 2, "ok", "0xaa", "0xaa"),
    LibAnswer("ok", 0, "ok", "0xaa", "0xaa"),
    LibAnswer("ok", 1, "ok", "0xaa", "0xbb"),
    LibAnswer("ok", 1, "throws", "0xaa", "0xaa") }

LibAnswersEthSign ==
  { LibAnswer("throws", 0, "none", "0xaa", "0xaa"),
    LibAnswer("ok", 2, "none", "0xaa", "0xaa"),
    LibAnswer("ok", 1, "none", "0xaa", "0xaa") }

\* The answers the libraries can give for this slice.
LibAnswers(transaction) ==
  IF transaction = << >> THEN {LibNotCalled}
  ELSE IF transaction[1] = TxTypeEIP155 THEN LibAnswersEIP155
  ELSE IF transaction[1] = TxTypeEthSign THEN LibAnswersEthSign
  ELSE {LibNotCalled}

(* ------------------------------------------------------------------ *)
(* validateBatchTransaction, maybeDecodeSequencerBatchTransaction      *)
(* ------------------------------------------------------------------ *)

\* The result of a call: it returned `value`, or it raised.
Returned(value) == [threw |-> FALSE, value |-> value]

Threw == [threw |-> TRUE, value |-> FALSE]

\* A bug to detect: the signature used is recoveringSig (v + 27).
ReformattedVRecovering(v) == v + 27

\* reformattedSig.v += 35 + 2 * 10
ReformattedV(v) == v + 35 + 2 * ChainId

\* const reformattedSig = { ...decoded.sig }, then the line above: a copy, so
\* decoded.sig keeps its v.
ReformattedSig(sig) == [sig EXCEPT !.v = ReformattedV(sig.v)]

\* const reformattedTx = { ...decoded, to: decoded.target } without sig and target
ReformattedTx(decoded) == [type |-> decoded.type]

\* ethers.utils.serializeTransaction(tx, sig): the signed serialization, which
\* holds the v of the signature it was given.
SerializeTransaction(tx, sig) == [tx |-> tx, v |-> sig.v]

\* The v of the EIP-155 signature of chain 10 for the slice the library answers
\* about: lib.recovered and lib.from are its answers for that signature.
AnsweredV(lib) == lib.v + 35 + 2 * ChainId

\* ethers.utils.recoverAddress(ethers.utils.keccak256(rawTx), sig): lib.recovered
\* for the serialization and signature the answer is about, and an address of
\* its own for any other.
RecoverAddress(rawTx, sig, lib) ==
  IF rawTx.v = AnsweredV(lib) /\ sig.v = AnsweredV(lib) THEN lib.recovered ELSE "0xcc"

\* ethers.utils.parseTransaction(rawTx): its sender is lib.from for the
\* serialization the answer is about, and an address of its own for any other.
ParseTransaction(rawTx, lib) ==
  [from |-> IF rawTx.v = AnsweredV(lib) THEN lib.from ELSE "0xdd"]

\* A bug to detect: the function ends with `return true` ("allow soft forks").
ValidateAllowsSoftForks(type, decoded, lib) ==
  IF type = TypeNull THEN Returned(FALSE)
  ELSE IF decoded[1].sig.v # 1 /\ decoded[1].sig.v # 0 THEN Returned(FALSE)
  ELSE IF type = "EIP155"
       THEN LET reformattedSig == ReformattedSig(decoded[1].sig)
                rawTx == SerializeTransaction(ReformattedTx(decoded[1]), reformattedSig)
                recoveredAddress == RecoverAddress(rawTx, reformattedSig, lib)
                parsedTx == ParseTransaction(rawTx, lib)
            IN  IF lib.crypto = "throws" THEN Threw
                ELSE Returned(recoveredAddress = parsedTx.from)
       ELSE Returned(TRUE)

\* A bug to detect: the check of sig.v is missing.
ValidateWithoutVCheck(type, decoded, lib) ==
  IF type = TypeNull THEN Returned(FALSE)
  ELSE IF type = "EIP155"
       THEN LET reformattedSig == ReformattedSig(decoded[1].sig)
                rawTx == SerializeTransaction(ReformattedTx(decoded[1]), reformattedSig)
                recoveredAddress == RecoverAddress(rawTx, reformattedSig, lib)
                parsedTx == ParseTransaction(rawTx, lib)
            IN  IF lib.crypto = "throws" THEN Threw
                ELSE Returned(recoveredAddress = parsedTx.from)
       ELSE Returned(FALSE)

\* validateBatchTransaction(type, decoded); lib.crypto, lib.recovered and lib.from
\* are what ethers answers for the reformatted transaction and signature.
ValidateBatchTransaction(type, decoded, lib) ==
  IF type = TypeNull THEN Returned(FALSE)
  ELSE IF decoded[1].sig.v # 1 /\ decoded[1].sig.v # 0 THEN Returned(FALSE)
  ELSE IF type = "EIP155"
       THEN LET reformattedSig == ReformattedSig(decoded[1].sig)
                rawTx == SerializeTransaction(ReformattedTx(decoded[1]), reformattedSig)
                recoveredAddress == RecoverAddress(rawTx, reformattedSig, lib)
                parsedTx == ParseTransaction(rawTx, lib)
            IN  IF lib.crypto = "throws" THEN Threw
                ELSE Returned(recoveredAddress = parsedTx.from)
       ELSE Returned(FALSE)

\* ctcCoder.eip155TxData.decode / ctcCoder.ethSignTxData.decode, when it returns.
DecodedFields(transaction, lib) ==
  [sig |-> [v |-> lib.v], type |-> transaction[1]]

\* A bug to detect: every marker other than the EIP155 marker is taken for the
\* ETH_SIGN marker.
MaybeDecodeUnknownAsEthSign(transaction, lib) ==
  IF transaction = << >>
  THEN [decoded |-> NULL, type |-> TypeNull]
  ELSE LET type == IF transaction[1] = TxTypeEIP155 THEN "EIP155" ELSE "ETH_SIGN"
       IN  IF lib.decode = "throws"
           THEN [decoded |-> NULL, type |-> type]
           ELSE LET decoded == Some(DecodedFields(transaction, lib))
                    valid == ValidateBatchTransaction(type, decoded, lib)
                IN  IF valid.threw THEN [decoded |-> decoded, type |-> type]
                    ELSE IF ~valid.value THEN [decoded |-> NULL, type |-> type]
                    ELSE [decoded |-> decoded, type |-> type]

\* maybeDecodeSequencerBatchTransaction(transaction): every raise inside the try
\* block is swallowed, and decoded and type keep what they held when it happened.
MaybeDecodeSequencerBatchTransaction(transaction, lib) ==
  IF transaction = << >>
  THEN \* readUInt8 on the empty buffer raises
       [decoded |-> NULL, type |-> TypeNull]
  ELSE LET txType == transaction[1]
           type == IF txType = TxTypeEIP155 THEN "EIP155"
                   ELSE IF txType = TxTypeEthSign THEN "ETH_SIGN"
                   ELSE TypeNull
       IN  IF type = TypeNull
           THEN \* throw new Error(`Unknown sequencer transaction type.`)
                [decoded |-> NULL, type |-> TypeNull]
           ELSE IF lib.decode = "throws"
           THEN [decoded |-> NULL, type |-> type]
           ELSE LET decoded == Some(DecodedFields(transaction, lib))
                    valid == ValidateBatchTransaction(type, decoded, lib)
                IN  IF valid.threw THEN [decoded |-> decoded, type |-> type]
                    ELSE IF ~valid.value THEN [decoded |-> NULL, type |-> type]
                    ELSE [decoded |-> decoded, type |-> type]

(* ------------------------------------------------------------------ *)
(* Inputs: the calldata of the settlement transaction                  *)
(* ------------------------------------------------------------------ *)

\* n as `size` big-endian bytes.
RECURSIVE BigEndian(_, _)
BigEndian(n, size) ==
  IF size = 0 THEN << >> ELSE BigEndian(n \div 256, size - 1) \o <<n % 256>>

RECURSIVE Concat(_)
Concat(seqs) == IF seqs = << >> THEN << >> ELSE Head(seqs) \o Concat(Tail(seqs))

RECURSIVE SumSeq(_)
SumSeq(ns) == IF ns = << >> THEN 0 ELSE Head(ns) + SumSeq(Tail(ns))

\* The timestamp and block number a generated calldata gives its k-th context
\* (k from 1): different for every context, and wider than one byte.
ContextStamp(k) == [timestamp |-> 1000 * k, blockNumber |-> 300 + k]

\* The shapes of the generated batches: per context, how many sequenced and how
\* many queued transactions it declares.  Every context declares a transaction,
\* but for two shapes with an empty context.
ContextShapes ==
  UNION { { shape \in [1..n -> (0..MaxBatch) \X (0..MaxBatch)] :
              /\ \A c \in 1..n : shape[c][1] + shape[c][2] >= 1
              /\ SumSeq([c \in 1..n |-> shape[c][1] + shape[c][2]]) <= MaxBatch }
          : n \in 0..MaxContexts }
    \cup { << <<0, 0>> >>, << <<0, 0>>, <<1, 1>> >> }

\* The k-th transaction slice (k from 0) of the tape that starts with kind `first`.
\* The kinds rotate through EIP155 marker, ETH_SIGN marker, unknown marker (2) and
\* the empty slice; a slice with a marker is 1 or 2 bytes long.
TapeSlice(first, k) ==
  LET kind == (first + k) % 4
  IN  IF kind = 3 THEN << >>
      ELSE IF k % 2 = 0 THEN <<kind>> ELSE <<kind, 255>>

TapeFirsts == 0..3

\* The layout of section 4.2: 12 reserved bytes, numContexts, the context blocks,
\* then the length-prefixed slices.
EncodeCalldata(shape, first) ==
  LET n == Len(shape)
      numSeq == SumSeq([k \in 1..n |-> shape[k][1]])
      contextBlock(k) ==
        BigEndian(shape[k][1], LenSize) \o BigEndian(shape[k][2], LenSize)
          \o BigEndian(ContextStamp(k).timestamp, StampSize)
          \o BigEndian(ContextStamp(k).blockNumber, StampSize)
      slice(k) == BigEndian(Len(TapeSlice(first, k - 1)), LenSize) \o TapeSlice(first, k - 1)
  IN  [k \in 1..NumContextsOffset |-> 171]
        \o BigEndian(n, LenSize)
        \o Concat([k \in 1..n |-> contextBlock(k)])
        \o Concat([k \in 1..numSeq |-> slice(k)])

\* How many bytes a generated calldata may have lost at its end.
Cuts == {1, 2, 5}

CutEnd(buf, cut) == SubSeq(buf, 1, Len(buf) - Min(cut, Len(buf)))

\* The payloads of the settlement transaction, as hex strings: every shape with
\* every tape, and every shape with the first tape and its end cut off.
CalldataFamily ==
  { ToHexString(EncodeCalldata(shape, first)) :
      shape \in ContextShapes, first \in TapeFirsts }
    \cup { ToHexString(CutEnd(EncodeCalldata(shape, 0), cut)) :
             shape \in ContextShapes, cut \in Cuts }

\* The well-formed payloads of the first tape, for the runs with the other
\* pipeline.
PipelineCalldataFamily ==
  { ToHexString(EncodeCalldata(shape, 0)) : shape \in ContextShapes }

\* One well-formed batch, for the runs that vary the chain's events instead.
SmallCalldataFamily ==
  { ToHexString(CutEnd(EncodeCalldata(<<<<1, 1>>>>, first), cut)) :
      first \in {0, 2}, cut \in {0, 5} }

(* ------------------------------------------------------------------ *)
(* Inputs: the events on the chain                                     *)
(* ------------------------------------------------------------------ *)

BatchArgs(prevTotalElements, batchIndex, batchSize, batchRoot, extra) ==
  [_prevTotalElements |-> prevTotalElements, _batchIndex |-> batchIndex,
   _batchSize |-> batchSize, _batchRoot |-> batchRoot, _extraData |-> extra]

ChainLog(blockNumber, logIndex, transactionHash, args) ==
  [blockNumber |-> blockNumber, logIndex |-> logIndex,
   transactionHash |-> transactionHash, args |-> args]

\* The TransactionBatchAppended events that may be on the chain, in chain order
\* (block number, then log index).  Every one carries its own batch metadata.
LogPool ==
  << ChainLog(1, 0, "0xt1", BatchArgs(0, 0, 2, "0xr0", "0xe0")),
     ChainLog(1, 0, "0xt2", BatchArgs(4, 1, 1, "0xr1", "0xe1")),
     ChainLog(1, 1, "0xt1", BatchArgs(10, 2, 3, "0xr2", "0xe2")),
     ChainLog(1, 1, "0xt2", BatchArgs(7, 3, 2, "0xr3", "0xe3")),
     ChainLog(2, 0, "0xt3", BatchArgs(20, 4, 1, "0xr4", "0xe4")) >>

\* A chain holds at most one log per (block, log index).
LogSlotsDistinct(picked) ==
  \A a \in picked, b \in picked :
    (LogPool[a].blockNumber = LogPool[b].blockNumber
       /\ LogPool[a].logIndex = LogPool[b].logIndex) => a = b

RECURSIVE PickLogs(_, _)
PickLogs(k, picked) ==
  IF k > Len(LogPool) THEN << >>
  ELSE (IF k \in picked THEN <<LogPool[k]>> ELSE << >>) \o PickLogs(k + 1, picked)

\* Every chain of at most MaxLogs events of the pool.
ResolverLogFamily ==
  { PickLogs(1, picked) :
      picked \in { q \in SUBSET (1..Len(LogPool)) :
                     Cardinality(q) <= MaxLogs /\ LogSlotsDistinct(q) } }

SequencerBatchAppended(transactionHash, logIndex, blockNumber, startingQueueIndex) ==
  [transactionHash |-> transactionHash, logIndex |-> logIndex,
   blockNumber |-> blockNumber, args |-> [_startingQueueIndex |-> startingQueueIndex]]

ResolverEventFamily ==
  { SequencerBatchAppended("0xt1", logIndex, 1, 3) : logIndex \in 0..2 }

(* ------------------------------------------------------------------ *)
(* State                                                               *)
(* ------------------------------------------------------------------ *)

VARIABLES
  chainLogs,          \* the chain: its TransactionBatchAppended events, in chain order
  l1Transaction,      \* the chain: the settlement transaction of the event
  event,              \* the SequencerBatchAppended event being handled
  pc,                 \* where the handling of the event stands
  extraData,          \* what getExtraData returned (NULL before)
  calldata,           \* parseEvent: the payload as a Buffer
  numContexts,        \* parseEvent: calldata.slice(12, 15)
  i,                  \* parseEvent: the context loop's counter
  j,                  \* parseEvent: the inner loop's counter
  context,            \* parseEvent: the context being processed
  transactionIndex,   \* parseEvent: entries pushed so far
  enqueuedCount,      \* parseEvent: queue-origin entries pushed so far
  nextTxPointer,      \* parseEvent: the read cursor
  transactionEntries, \* parseEvent: the list being built
  reads,              \* history: per sequencer entry of the list being built or
                      \* just returned, where its slice was read, the length it
                      \* declared, the slice and the libraries' answer
  entry,              \* what parseEvent returned (NULL before)
  db,                 \* the Entry Store: the calls made to it, in order
  k,                  \* storeEvent: the position of the reverse-lookup loop
  enqueueEntries      \* the other pipeline: how many of the queue messages from
                      \* _startingQueueIndex on its handler has recorded in the
                      \* Entry Store

chain == <<chainLogs, l1Transaction, event>>

locals == <<calldata, numContexts, i, j, context, transactionIndex, enqueuedCount,
            nextTxPointer, transactionEntries>>

vars == <<chainLogs, l1Transaction, event, pc, extraData, calldata, numContexts, i, j,
          context, transactionIndex, enqueuedCount, nextTxPointer, transactionEntries,
          reads, entry, db, k, enqueueEntries>>

NoContext ==
  [numSequencedTransactions |-> 0, numSubsequentQueueTransactions |-> 0,
   timestamp |-> 0, blockNumber |-> 0]

EmptyDb ==
  [transactionBatchEntries |-> << >>, transactionEntries |-> << >>,
   transactionIndexByQueueIndex |-> << >>]

\* event.getBlock(): the block that holds the event.
GetBlock(ev) == [number |-> ev.blockNumber, timestamp |-> 5000 + ev.blockNumber]

InitWith(logFamily, eventFamily, dataFamily) ==
  /\ chainLogs \in logFamily
  /\ event \in eventFamily
  /\ l1Transaction \in
       { [hash |-> event.transactionHash, from |-> "0x5e", data |-> data] :
           data \in dataFamily }
  /\ pc = "getExtraData"
  /\ extraData = NULL
  /\ calldata = << >>
  /\ numContexts = 0
  /\ i = 0
  /\ j = 0
  /\ context = NoContext
  /\ transactionIndex = 0
  /\ enqueuedCount = 0
  /\ nextTxPointer = 0
  /\ transactionEntries = << >>
  /\ reads = << >>
  /\ entry = NULL
  /\ db = EmptyDb
  /\ k = 0
  /\ enqueueEntries = 0

\* The runs that vary the calldata: the event at log index 2 with its companion
\* and every calldata; the event at log index 1, with its companion or without,
\* and the small calldata.
Init ==
  \/ InitWith({<<LogPool[3]>>}, {SequencerBatchAppended("0xt1", 2, 1, 3)},
              CalldataFamily)
  \/ InitWith({<<LogPool[1]>>, << >>}, {SequencerBatchAppended("0xt1", 1, 1, 0)},
              SmallCalldataFamily)

\* The runs with the other pipeline at work.
InitPipelines ==
  InitWith({<<LogPool[3]>>}, {SequencerBatchAppended("0xt1", 2, 1, 3)},
           PipelineCalldataFamily)

\* The runs that vary the chain's events.
InitResolver == InitWith(ResolverLogFamily, ResolverEventFamily, SmallCalldataFamily)

(* ------------------------------------------------------------------ *)
(* getExtraData                                                        *)
(* ------------------------------------------------------------------ *)

\* OVM_CanonicalTransactionChain.queryFilter(TransactionBatchAppended(), from, to)
QueryFilter(logs, fromBlock, toBlock) ==
  SelectSeq(logs, LAMBDA log : fromBlock <= log.blockNumber /\ log.blockNumber <= toBlock)

\* A bug to detect: the predicate compares the transaction hash only.
IsBatchSubmissionEventAnyIndex(foundEvent, ev) ==
  foundEvent.transactionHash = ev.transactionHash

\* The predicate of .find(...)
IsBatchSubmissionEvent(foundEvent, ev) ==
  /\ foundEvent.transactionHash = ev.transactionHash
  /\ foundEvent.logIndex = ev.logIndex - 1

\* Array.prototype.find: the first element that satisfies the predicate, or
\* undefined (NULL).
RECURSIVE Find(_, _)
Find(found, ev) ==
  IF found = << >> THEN NULL
  ELSE IF IsBatchSubmissionEvent(Head(found), ev) THEN Some(Head(found))
  ELSE Find(Tail(found), ev)

\* The events the query of getExtraData returns.
FoundEvents == QueryFilter(chainLogs, GetBlock(event).number, GetBlock(event).number)

\* The object getExtraData returns.
ExtraDataOf(l1Tx, eventBlock, batchSubmissionEvent) ==
  [timestamp |-> eventBlock.timestamp,
   blockNumber |-> eventBlock.number,
   submitter |-> l1Tx.from,
   l1TransactionHash |-> l1Tx.hash,
   l1TransactionData |-> l1Tx.data,
   gasLimit |-> FixedGasLimit,
   prevTotalElements |-> batchSubmissionEvent.args._prevTotalElements,
   batchIndex |-> batchSubmissionEvent.args._batchIndex,
   batchSize |-> batchSubmissionEvent.args._batchSize,
   batchRoot |-> batchSubmissionEvent.args._batchRoot,
   batchExtraData |-> batchSubmissionEvent.args._extraData]

\* A bug to detect: without a companion event the handler does not raise, and
\* goes on with empty batch metadata.
GetExtraDataContinues ==
  /\ pc = "getExtraData"
  /\ LET batchSubmissionEvent == Find(FoundEvents, event)
         found == IF batchSubmissionEvent = NULL
                  THEN [args |-> BatchArgs(0, 0, 0, "0x", "0x")]
                  ELSE batchSubmissionEvent[1]
     IN  /\ extraData' = Some(ExtraDataOf(l1Transaction, GetBlock(event), found))
         /\ pc' = "parseEvent"
  /\ UNCHANGED <<chain, enqueueEntries, locals, reads, entry, db, k>>

\* Lines 47-91: the companion event is looked up; without one the call raises
\* (line 71), with one the metadata is returned.
GetExtraData ==
  /\ pc = "getExtraData"
  /\ LET batchSubmissionEvent == Find(FoundEvents, event)
     IN  \/ /\ batchSubmissionEvent = NULL
            /\ pc' = "failed"
            /\ UNCHANGED extraData
         \/ /\ batchSubmissionEvent # NULL
            /\ extraData' = Some(ExtraDataOf(l1Transaction, GetBlock(event),
                                             batchSubmissionEvent[1]))
            /\ pc' = "parseEvent"
  /\ UNCHANGED <<chain, enqueueEntries, locals, reads, entry, db, k>>

(* ------------------------------------------------------------------ *)
(* parseEvent                                                          *)
(* ------------------------------------------------------------------ *)

\* A bug to detect: the sequencer entry takes the timestamp and block number of
\* the settlement block.
SequencerEntrySettlementStamp(extra, ctx, index, sequencerTransaction, decodedAndType) ==
  [index |-> extra.prevTotalElements + index,
   batchIndex |-> extra.batchIndex,
   blockNumber |-> extra.blockNumber,
   timestamp |-> extra.timestamp,
   gasLimit |-> extra.gasLimit,
   target |-> SequencerTarget,
   origin |-> NULL,
   data |-> ToHexString(sequencerTransaction),
   queueOrigin |-> "sequencer",
   type |-> decodedAndType.type,
   queueIndex |-> NULL,
   decoded |-> decodedAndType.decoded]

\* The entry pushed by the sequencer loop.
SequencerEntry(extra, ctx, index, sequencerTransaction, decodedAndType) ==
  [index |-> extra.prevTotalElements + index,
   batchIndex |-> extra.batchIndex,
   blockNumber |-> ctx.blockNumber,
   timestamp |-> ctx.timestamp,
   gasLimit |-> extra.gasLimit,
   target |-> SequencerTarget,
   origin |-> NULL,
   data |-> ToHexString(sequencerTransaction),
   queueOrigin |-> "sequencer",
   type |-> decodedAndType.type,
   queueIndex |-> NULL,
   decoded |-> decodedAndType.decoded]

\* event.args._startingQueueIndex.add(BigNumber.from(enqueuedCount))
QueueIndexOf(ev, enqueued) == ev.args._startingQueueIndex + enqueued

\* A bug to detect: the queue entry carries no queueIndex.
QueueEntryWithoutQueueIndex(extra, ev, index, enqueued) ==
  [index |-> extra.prevTotalElements + index,
   batchIndex |-> extra.batchIndex,
   blockNumber |-> 0,
   timestamp |-> 0,
   gasLimit |-> 0,
   target |-> ZeroAddress,
   origin |-> Some(ZeroAddress),
   data |-> << >>,
   queueOrigin |-> "l1",
   type |-> "EIP155",
   queueIndex |-> NULL,
   decoded |-> NULL]

\* The entry pushed by the queue loop.
QueueEntry(extra, ev, index, enqueued) ==
  [index |-> extra.prevTotalElements + index,
   batchIndex |-> extra.batchIndex,
   blockNumber |-> 0,
   timestamp |-> 0,
   gasLimit |-> 0,
   target |-> ZeroAddress,
   origin |-> Some(ZeroAddress),
   data |-> << >>,
   queueOrigin |-> "l1",
   type |-> "EIP155",
   queueIndex |-> Some(QueueIndexOf(ev, enqueued)),
   decoded |-> NULL]

TransactionBatchEntryOf(extra) ==
  [index |-> extra.batchIndex,
   root |-> extra.batchRoot,
   size |-> extra.batchSize,
   prevTotalElements |-> extra.prevTotalElements,
   extraData |-> extra.batchExtraData,
   blockNumber |-> extra.blockNumber,
   timestamp |-> extra.timestamp,
   submitter |-> extra.submitter,
   l1TransactionHash |-> extra.l1TransactionHash]

\* let nextTxPointer = 15 + 16 * numContexts
FirstTxPointer(n) == ContextsOffset + ContextSize * n

\* A bug to detect: every context is read from the first context block.
ContextPointerFirstOnly(n) == ContextsOffset

\* const contextPointer = 15 + 16 * i
ContextPointer(n) == ContextsOffset + ContextSize * n

\* nextTxPointer += 3 + sequencerTransaction.length
AdvanceTxPointer(pointer, sequencerTransaction) ==
  pointer + LenSize + Len(sequencerTransaction)

\* What the sequencer loop records about one read of the cursor.
ReadOf(buf, pointer, lib) ==
  [offset |-> pointer,
   declared |-> BigNumberFrom(BufferSlice(buf, pointer, pointer + LenSize)),
   slice |-> ParseSequencerBatchTransaction(buf, pointer),
   lib |-> lib]

\* A bug to detect: the entries are stored as they are built, so a raise leaves
\* those built before it in the Entry Store.
ParseEventRaisesAfterFlush ==
  /\ pc' = "failed"
  /\ numContexts' = 0
  /\ i' = 0
  /\ j' = 0
  /\ context' = NoContext
  /\ transactionIndex' = 0
  /\ enqueuedCount' = 0
  /\ nextTxPointer' = 0
  /\ transactionEntries' = << >>
  /\ reads' = << >>
  /\ db' = [db EXCEPT !.transactionEntries = @ \o transactionEntries]
  /\ UNCHANGED <<chain, enqueueEntries, extraData, calldata, entry, k>>

\* parseEvent raises: nothing is returned, and the locals of the call are gone
\* (calldata, which extraData determines, is kept for the properties to read).
ParseEventRaises ==
  /\ pc' = "failed"
  /\ numContexts' = 0
  /\ i' = 0
  /\ j' = 0
  /\ context' = NoContext
  /\ transactionIndex' = 0
  /\ enqueuedCount' = 0
  /\ nextTxPointer' = 0
  /\ transactionEntries' = << >>
  /\ reads' = << >>
  /\ UNCHANGED <<chain, enqueueEntries, extraData, calldata, entry, db, k>>

\* Lines 93-101: the payload as a Buffer, numContexts, the counters.
ParseEventStart ==
  /\ pc = "parseEvent"
  /\ LET data == FromHexString(extraData[1].l1TransactionData)
         numContextsBytes == BufferSlice(data, NumContextsOffset, ContextsOffset)
         n == BigNumberFrom(numContextsBytes)
     IN  \/ /\ calldata' = data
            /\ numContexts' = n
            /\ nextTxPointer' = FirstTxPointer(n)
            /\ transactionIndex' = 0
            /\ enqueuedCount' = 0
            /\ i' = 0
            /\ transactionEntries' = << >>
            /\ pc' = "context"
            /\ UNCHANGED <<chain, enqueueEntries, extraData, j, context, reads, entry, db, k>>
         \/ /\ BigNumberMayRaise(numContextsBytes)
            /\ ParseEventRaises

\* Where control comes to rest from the head of the inner loop `loop` with
\* counter jv: the loop conditions of lines 106 and 137 and the i++ of line 102
\* change no data, so they are taken together with the step before them.
\*   "sequenced"  the body of the sequencer loop is about to run (jv < count)
\*   "queued"     the body of the queue loop is about to run (jv < count)
\*   "context"    the head of the context loop, with i + 1
ControlFrom(loop, iv, jv, ctx) ==
  IF loop = "sequenced" /\ jv < ctx.numSequencedTransactions
  THEN [pc |-> "sequenced", i |-> iv, j |-> jv]
  ELSE LET jq == IF loop = "sequenced" THEN 0 ELSE jv
       IN  IF jq < ctx.numSubsequentQueueTransactions
           THEN [pc |-> "queued", i |-> iv, j |-> jq]
           ELSE [pc |-> "context", i |-> iv + 1, j |-> 0]

\* A bug to detect: enqueuedCount is declared inside the context loop, and
\* starts again at 0 in every context.
EnterContextResetsCount ==
  /\ pc = "context"
  /\ i < numContexts
  /\ \/ LET ctx == ParseSequencerBatchContext(calldata, ContextPointer(i))
            to == ControlFrom("sequenced", i, 0, ctx)
        IN  /\ context' = ctx
            /\ pc' = to.pc
            /\ i' = to.i
            /\ j' = to.j
            /\ enqueuedCount' = 0
            /\ UNCHANGED <<chain, enqueueEntries, extraData, calldata, numContexts, transactionIndex,
                           nextTxPointer, transactionEntries, reads, entry, db, k>>
     \/ /\ ContextMayRaise(calldata, ContextPointer(i))
        /\ ParseEventRaises

\* A bug to detect: the read cursor starts again behind the context blocks in
\* every context.
EnterContextResetsCursor ==
  /\ pc = "context"
  /\ i < numContexts
  /\ \/ LET ctx == ParseSequencerBatchContext(calldata, ContextPointer(i))
            to == ControlFrom("sequenced", i, 0, ctx)
        IN  /\ context' = ctx
            /\ pc' = to.pc
            /\ i' = to.i
            /\ j' = to.j
            /\ nextTxPointer' = FirstTxPointer(numContexts)
            /\ UNCHANGED <<chain, enqueueEntries, extraData, calldata, numContexts, transactionIndex,
                           enqueuedCount, transactionEntries, reads, entry, db, k>>
     \/ /\ ContextMayRaise(calldata, ContextPointer(i))
        /\ ParseEventRaises

\* Lines 102-104: the context loop runs for context i: its block is parsed.
EnterContext ==
  /\ pc = "context"
  /\ i < numContexts
  /\ \/ LET ctx == ParseSequencerBatchContext(calldata, ContextPointer(i))
            to == ControlFrom("sequenced", i, 0, ctx)
        IN  /\ context' = ctx
            /\ pc' = to.pc
            /\ i' = to.i
            /\ j' = to.j
            /\ UNCHANGED <<chain, enqueueEntries, extraData, calldata, numContexts, transactionIndex,
                           enqueuedCount, nextTxPointer, transactionEntries, reads,
                           entry, db, k>>
     \/ /\ ContextMayRaise(calldata, ContextPointer(i))
        /\ ParseEventRaises

\* A bug to detect: the sequencer loop does not advance transactionIndex.
PushSequencerEntryStaleIndex ==
  /\ pc = "sequenced"
  /\ \/ LET sequencerTransaction ==
               ParseSequencerBatchTransaction(calldata, nextTxPointer)
            to == ControlFrom("sequenced", i, j + 1, context)
        IN  /\ \E lib \in LibAnswers(sequencerTransaction) :
                 /\ transactionEntries' =
                      Append(transactionEntries,
                             SequencerEntry(extraData[1], context, transactionIndex,
                                            sequencerTransaction,
                                            MaybeDecodeSequencerBatchTransaction(
                                              sequencerTransaction, lib)))
                 /\ reads' = Append(reads, ReadOf(calldata, nextTxPointer, lib))
            /\ nextTxPointer' = AdvanceTxPointer(nextTxPointer, sequencerTransaction)
            /\ pc' = to.pc
            /\ i' = to.i
            /\ j' = to.j
            /\ UNCHANGED <<chain, enqueueEntries, extraData, calldata, numContexts, context,
                           transactionIndex, enqueuedCount, entry, db, k>>
     \/ /\ TransactionMayRaise(calldata, nextTxPointer)
        /\ ParseEventRaises

\* Lines 106-135: one iteration of the sequencer loop.
PushSequencerEntry ==
  /\ pc = "sequenced"
  /\ \/ LET sequencerTransaction ==
               ParseSequencerBatchTransaction(calldata, nextTxPointer)
            to == ControlFrom("sequenced", i, j + 1, context)
        IN  /\ \E lib \in LibAnswers(sequencerTransaction) :
                 /\ transactionEntries' =
                      Append(transactionEntries,
                             SequencerEntry(extraData[1], context, transactionIndex,
                                            sequencerTransaction,
                                            MaybeDecodeSequencerBatchTransaction(
                                              sequencerTransaction, lib)))
                 /\ reads' = Append(reads, ReadOf(calldata, nextTxPointer, lib))
            /\ nextTxPointer' = AdvanceTxPointer(nextTxPointer, sequencerTransaction)
            /\ transactionIndex' = transactionIndex + 1
            /\ pc' = to.pc
            /\ i' = to.i
            /\ j' = to.j
            /\ UNCHANGED <<chain, enqueueEntries, extraData, calldata, numContexts, context,
                           enqueuedCount, entry, db, k>>
     \/ /\ TransactionMayRaise(calldata, nextTxPointer)
        /\ ParseEventRaises

\* A bug to detect: the queue entry takes the timestamp and block number of
\* its context.
PushQueueEntryContextStamp ==
  /\ pc = "queued"
  /\ LET to == ControlFrom("queued", i, j + 1, context)
     IN  /\ pc' = to.pc
         /\ i' = to.i
         /\ j' = to.j
  /\ transactionEntries' =
       Append(transactionEntries,
              [QueueEntry(extraData[1], event, transactionIndex, enqueuedCount)
                 EXCEPT !.timestamp = context.timestamp,
                        !.blockNumber = context.blockNumber])
  /\ enqueuedCount' = enqueuedCount + 1
  /\ transactionIndex' = transactionIndex + 1
  /\ UNCHANGED <<chain, enqueueEntries, extraData, calldata, numContexts, context, nextTxPointer,
                 reads, entry, db, k>>

\* A bug to detect: the queue loop does not advance transactionIndex.
PushQueueEntryStaleIndex ==
  /\ pc = "queued"
  /\ LET to == ControlFrom("queued", i, j + 1, context)
     IN  /\ pc' = to.pc
         /\ i' = to.i
         /\ j' = to.j
  /\ transactionEntries' =
       Append(transactionEntries,
              QueueEntry(extraData[1], event, transactionIndex, enqueuedCount))
  /\ enqueuedCount' = enqueuedCount + 1
  /\ UNCHANGED <<chain, enqueueEntries, extraData, calldata, numContexts, context, transactionIndex,
                 nextTxPointer, reads, entry, db, k>>

\* A bug to detect: the queue loop waits until the other pipeline has recorded
\* the queue message the entry refers to.
PushQueueEntryWaits ==
  /\ pc = "queued"
  /\ enqueueEntries > enqueuedCount
  /\ LET to == ControlFrom("queued", i, j + 1, context)
     IN  /\ pc' = to.pc
         /\ i' = to.i
         /\ j' = to.j
  /\ transactionEntries' =
       Append(transactionEntries,
              QueueEntry(extraData[1], event, transactionIndex, enqueuedCount))
  /\ enqueuedCount' = enqueuedCount + 1
  /\ transactionIndex' = transactionIndex + 1
  /\ UNCHANGED <<chain, enqueueEntries, extraData, calldata, numContexts, context,
                 nextTxPointer, reads, entry, db, k>>

\* Lines 137-166: one iteration of the queue loop.
PushQueueEntry ==
  /\ pc = "queued"
  /\ LET to == ControlFrom("queued", i, j + 1, context)
     IN  /\ pc' = to.pc
         /\ i' = to.i
         /\ j' = to.j
  /\ transactionEntries' =
       Append(transactionEntries,
              QueueEntry(extraData[1], event, transactionIndex, enqueuedCount))
  /\ enqueuedCount' = enqueuedCount + 1
  /\ transactionIndex' = transactionIndex + 1
  /\ UNCHANGED <<chain, enqueueEntries, extraData, calldata, numContexts, context, nextTxPointer,
                 reads, entry, db, k>>

\* Lines 169-184: the context loop ends; the batch entry is built and both are
\* returned.  The locals of the call are gone (calldata, which extraData
\* determines, is kept for the properties to read).
ParseEventReturn ==
  /\ pc = "context"
  /\ i >= numContexts
  /\ entry' = Some([transactionBatchEntry |-> TransactionBatchEntryOf(extraData[1]),
                    transactionEntries |-> transactionEntries])
  /\ pc' = "storeEvent"
  /\ numContexts' = 0
  /\ i' = 0
  /\ j' = 0
  /\ context' = NoContext
  /\ transactionIndex' = 0
  /\ enqueuedCount' = 0
  /\ nextTxPointer' = 0
  /\ transactionEntries' = << >>
  /\ UNCHANGED <<chain, enqueueEntries, extraData, calldata, reads, db, k>>

(* ------------------------------------------------------------------ *)
(* storeEvent                                                          *)
(* ------------------------------------------------------------------ *)

\* Line 187: await db.putTransactionBatchEntries([entry.transactionBatchEntry])
PutTransactionBatchEntries ==
  /\ pc = "storeEvent"
  /\ db' = [db EXCEPT !.transactionBatchEntries =
                        @ \o <<entry[1].transactionBatchEntry>>]
  /\ pc' = "putTransactionEntries"
  /\ reads' = << >>
  /\ UNCHANGED <<chain, enqueueEntries, extraData, locals, entry, k>>

\* A bug to detect: the call is not awaited, and the loop of the reverse lookups
\* runs before the entries are stored.
PutTransactionEntriesNotAwaited ==
  /\ pc = "putTransactionEntries"
  /\ k' = 1
  /\ pc' = "putTransactionIndex"
  /\ UNCHANGED <<chain, enqueueEntries, extraData, locals, reads, entry, db>>

\* Line 188: await db.putTransactionEntries(entry.transactionEntries)
PutTransactionEntries ==
  /\ pc = "putTransactionEntries"
  /\ db' = [db EXCEPT !.transactionEntries = @ \o entry[1].transactionEntries]
  /\ k' = 1
  /\ pc' = "putTransactionIndex"
  /\ UNCHANGED <<chain, enqueueEntries, extraData, locals, reads, entry>>

\* A bug to detect: the test of queueOrigin is missing, and a reverse lookup is
\* recorded for every entry.
PutTransactionIndexForEveryEntry ==
  /\ pc = "putTransactionIndex"
  /\ k <= Len(entry[1].transactionEntries)
  /\ LET transactionEntry == entry[1].transactionEntries[k]
     IN  db' = [db EXCEPT !.transactionIndexByQueueIndex =
                            Append(@, [queueIndex |-> transactionEntry.queueIndex,
                                       index |-> transactionEntry.index])]
  /\ k' = k + 1
  /\ UNCHANGED <<chain, enqueueEntries, pc, extraData, locals, reads, entry>>

\* Lines 192-199: one iteration of the loop over the entries.
PutTransactionIndexByQueueIndex ==
  /\ pc = "putTransactionIndex"
  /\ k <= Len(entry[1].transactionEntries)
  /\ LET transactionEntry == entry[1].transactionEntries[k]
     IN  db' = IF transactionEntry.queueOrigin = "l1"
               THEN [db EXCEPT !.transactionIndexByQueueIndex =
                                 Append(@, [queueIndex |-> transactionEntry.queueIndex,
                                            index |-> transactionEntry.index])]
               ELSE db
  /\ k' = k + 1
  /\ UNCHANGED <<chain, enqueueEntries, pc, extraData, locals, reads, entry>>

\* Line 200: the loop ends and storeEvent returns.
StoreEventReturn ==
  /\ pc = "putTransactionIndex"
  /\ k > Len(entry[1].transactionEntries)
  /\ pc' = "done"
  /\ k' = 0
  /\ UNCHANGED <<chain, enqueueEntries, extraData, locals, reads, entry, db>>

(* ------------------------------------------------------------------ *)
(* Specifications                                                      *)
(* ------------------------------------------------------------------ *)

Next ==
  \/ GetExtraData
  \/ ParseEventStart
  \/ EnterContext
  \/ PushSequencerEntry
  \/ PushQueueEntry
  \/ ParseEventReturn
  \/ PutTransactionBatchEntries
  \/ PutTransactionEntries
  \/ PutTransactionIndexByQueueIndex
  \/ StoreEventReturn

Spec == Init /\ [][Next]_vars

SpecResolver == InitResolver /\ [][Next]_vars

\* The handler of the cross-layer queue messages, which runs concurrently and is
\* not part of this file: at any moment it records the next queue message.
RecordEnqueue ==
  /\ enqueueEntries < MaxBatch
  /\ enqueueEntries' = enqueueEntries + 1
  /\ UNCHANGED <<chain, pc, extraData, locals, reads, entry, db, k>>

NextPipelines ==
  \/ Next
  \/ RecordEnqueue

SpecPipelines == InitPipelines /\ [][NextPipelines]_vars

(* ------------------------------------------------------------------ *)
(* What the properties speak of                                        *)
(* ------------------------------------------------------------------ *)

\* parseEvent has read its payload into a Buffer.
Started == pc # "getExtraData" /\ pc # "parseEvent" /\ extraData # NULL

\* The payload handed to parseEvent, as bytes (once parseEvent has started).
Payload == calldata

\* The entries emitted so far: the list being built, then the list returned.
Entries == IF entry # NULL THEN entry[1].transactionEntries ELSE transactionEntries

\* parseEvent is running.
Parsing == pc \in {"context", "sequenced", "queued"}

\* parseEvent has returned its result.
Parsed == entry # NULL

\* parseEvent raised.
ParseFailed == pc = "failed" /\ extraData # NULL

\* The number of contexts the payload declares, and its c-th context (c from 1).
DeclaredNumContexts(buf) ==
  BigNumberFrom(BufferSlice(buf, NumContextsOffset, ContextsOffset))

DeclaredContext(buf, c) ==
  ParseSequencerBatchContext(buf, ContextsOffset + ContextSize * (c - 1))

DeclaredSequenced(buf) ==
  SumSeq([c \in 1..DeclaredNumContexts(buf) |->
            DeclaredContext(buf, c).numSequencedTransactions])

DeclaredTotal(buf) ==
  SumSeq([c \in 1..DeclaredNumContexts(buf) |->
            DeclaredContext(buf, c).numSequencedTransactions
              + DeclaredContext(buf, c).numSubsequentQueueTransactions])

Repeat(x, n) == [q \in 1..n |-> x]

\* For every position of the entry list the contract prescribes: the context it
\* belongs to and its origin.  Context 1's sequenced positions, then context 1's
\* queued positions, then context 2's, ...
DeclaredLayout(buf) ==
  Concat([c \in 1..DeclaredNumContexts(buf) |->
            Repeat([context |-> c, origin |-> "sequencer"],
                   DeclaredContext(buf, c).numSequencedTransactions)
              \o Repeat([context |-> c, origin |-> "l1"],
                        DeclaredContext(buf, c).numSubsequentQueueTransactions)])

\* `count` length-prefixed slices lie within the payload from `pointer` on.
RECURSIVE SlicesFit(_, _, _)
SlicesFit(buf, pointer, count) ==
  \/ count = 0
  \/ /\ pointer + LenSize <= Len(buf)
     /\ LET length == BigNumberFrom(SubSeq(buf, pointer + 1, pointer + LenSize))
        IN  /\ pointer + LenSize + length <= Len(buf)
            /\ SlicesFit(buf, pointer + LenSize + length, count - 1)

\* Valid calldata: the context blocks and every declared slice lie within the
\* payload, and the contexts declare as many transactions as the batch holds
\* (what the settlement contract requires of an appended batch).
ValidCalldata(buf, batchSize) ==
  /\ ContextsOffset + ContextSize * DeclaredNumContexts(buf) <= Len(buf)
  /\ SlicesFit(buf, ContextsOffset + ContextSize * DeclaredNumContexts(buf),
               DeclaredSequenced(buf))
  /\ DeclaredTotal(buf) = batchSize

IndexSet(es) == { es[p].index : p \in 1..Len(es) }

(* ------------------------------------------------------------------ *)
(* C1                                                                  *)
(* ------------------------------------------------------------------ *)

\* C1: for valid calldata parseEvent returns, and the index values of the entries
\* it returns are exactly prevTotalElements .. prevTotalElements + size - 1, size
\* being the size of the TransactionBatchEntry returned with them: no gap, no
\* duplicate.
C1_IndexRange ==
  (Started /\ ValidCalldata(Payload, extraData[1].batchSize)) =>
    /\ ~ParseFailed
    /\ Parsed =>
         LET es == entry[1].transactionEntries
             batch == entry[1].transactionBatchEntry
         IN  /\ IndexSet(es) =
                  batch.prevTotalElements .. (batch.prevTotalElements + batch.size - 1)
             /\ Cardinality(IndexSet(es)) = Len(es)

\* A valid batch of three entries of both origins, after ten earlier elements.
C1_Witness ==
  /\ Parsed
  /\ ValidCalldata(Payload, extraData[1].batchSize)
  /\ entry[1].transactionBatchEntry.prevTotalElements = 10
  /\ Len(entry[1].transactionEntries) = 3
  /\ \E p, q \in 1..3 :
       /\ entry[1].transactionEntries[p].queueOrigin = "sequencer"
       /\ entry[1].transactionEntries[q].queueOrigin = "l1"

(* ------------------------------------------------------------------ *)
(* C2                                                                  *)
(* ------------------------------------------------------------------ *)

\* C2: the entries are emitted in the order of the declared layout: at every
\* moment the list built so far fills the first positions of the layout, each
\* entry has the origin of its position, a sequencer entry carries the timestamp
\* and block number of its position's context, and the list returned fills the
\* whole layout.
C2_ContextOrder ==
  Started =>
    \A layout \in {DeclaredLayout(Payload)}, es \in {Entries} :
      /\ Len(es) <= Len(layout)
      /\ \A p \in 1..Len(es) :
           /\ es[p].queueOrigin = layout[p].origin
           /\ layout[p].origin = "sequencer" =>
                \A ctx \in {DeclaredContext(Payload, layout[p].context)} :
                  /\ es[p].timestamp = ctx.timestamp
                  /\ es[p].blockNumber = ctx.blockNumber
      /\ Parsed => Len(es) = Len(layout)

\* Two contexts: a sequencer entry and a queue-origin entry of the first, then
\* a sequencer entry of the second.
C2_Witness ==
  /\ Parsed
  /\ DeclaredNumContexts(Payload) = 2
  /\ Len(Entries) = 3
  /\ Entries[1].queueOrigin = "sequencer"
  /\ Entries[2].queueOrigin = "l1"
  /\ Entries[3].queueOrigin = "sequencer"
  /\ Entries[1].timestamp # Entries[3].timestamp

(* ------------------------------------------------------------------ *)
(* C3                                                                  *)
(* ------------------------------------------------------------------ *)

QueueEntries(es) == SelectSeq(es, LAMBDA e : e.queueOrigin = "l1")

\* C3: the m-th queue-origin entry of a batch (m from 0), counted across all
\* contexts, has queueIndex = startingQueueIndex + m; while parseEvent runs,
\* enqueuedCount is the number of queue-origin entries emitted so far.
C3_QueueIndexSequence ==
  /\ \A m \in 1..Len(QueueEntries(Entries)) :
       QueueEntries(Entries)[m].queueIndex =
         Some(event.args._startingQueueIndex + (m - 1))
  /\ Parsing => enqueuedCount = Len(QueueEntries(Entries))

\* Queue-origin entries of two contexts, a sequencer entry between them, and a
\* starting queue index other than 0.
C3_Witness ==
  /\ Parsed
  /\ event.args._startingQueueIndex = 3
  /\ \E p, q, r \in 1..Len(Entries) :
       /\ p < q /\ q < r
       /\ Entries[p].queueOrigin = "l1"
       /\ Entries[q].queueOrigin = "sequencer"
       /\ Entries[r].queueOrigin = "l1"

(* ------------------------------------------------------------------ *)
(* C4                                                                  *)
(* ------------------------------------------------------------------ *)

SequencerEntries(es) == SelectSeq(es, LAMBDA e : e.queueOrigin = "sequencer")

\* The length prefix of the read lies within the payload and the length it
\* declares runs past the payload's end.
RunsPastEnd(read, buf) ==
  /\ read.offset + LenSize <= Len(buf)
  /\ read.offset + LenSize + read.declared > Len(buf)

\* C4, as the specification states it: when the declared length of a slice runs
\* past the end of the payload, parseEvent raises and returns no entry list.
\* The code returns a list (Buffer.slice gives the bytes that remain).
C4_TruncatedSliceRaises ==
  (\E r \in 1..Len(reads) : RunsPastEnd(reads[r], Payload)) => ~Parsed

(* ------------------------------------------------------------------ *)
(* C5                                                                  *)
(* ------------------------------------------------------------------ *)

\* C5, as the specification states it: a slice whose decoding raises, its marker
\* being a recognised one or not, gets type = null and decoded = null.  The code
\* has set type before it decodes, and the entry keeps it.
C5_DecodeFailureUndecodable ==
  \A r \in 1..Len(reads) :
    reads[r].lib.decode = "throws" =>
      /\ SequencerEntries(Entries)[r].type = TypeNull
      /\ SequencerEntries(Entries)[r].decoded = NULL

(* ------------------------------------------------------------------ *)
(* C6                                                                  *)
(* ------------------------------------------------------------------ *)

\* The sequencer loop is about to read a slice with a marker that is neither
\* the EIP155 nor the ETH_SIGN marker.
UnknownMarkerAtCursor ==
  /\ pc = "sequenced"
  /\ \E t \in {ParseSequencerBatchTransaction(calldata, nextTxPointer)} :
       t # << >> /\ t[1] # TxTypeEIP155 /\ t[1] # TxTypeEthSign

\* C6: the step that reads a slice with an unknown marker does not raise: it
\* appends one sequencer entry with type = null and decoded = null, the bytes
\* of the slice as its data and the index of its position; and every step that
\* appends an entry gives it the index of its position, whatever came before.
C6_UnknownMarkerKeepsPosition ==
  [][ /\ UnknownMarkerAtCursor =>
           /\ pc' # "failed"
           /\ Len(transactionEntries') = Len(transactionEntries) + 1
           /\ \E e \in {transactionEntries'[Len(transactionEntries')]} :
                /\ e.type = TypeNull
                /\ e.decoded = NULL
                /\ e.queueOrigin = "sequencer"
                /\ e.data = ToHexString(
                              ParseSequencerBatchTransaction(calldata, nextTxPointer))
      /\ Len(transactionEntries') > Len(transactionEntries) =>
           /\ SubSeq(transactionEntries', 1, Len(transactionEntries)) = transactionEntries
           /\ transactionEntries'[Len(transactionEntries')].index =
                extraData[1].prevTotalElements + Len(transactionEntries)
    ]_vars

\* A batch returned with a slice of unknown marker that is not its last entry.
C6_Witness ==
  /\ Parsed
  /\ \E r \in 1..Len(reads) :
       /\ reads[r].slice # << >>
       /\ reads[r].slice[1] = 2
       /\ SequencerEntries(Entries)[r].type = TypeNull
       /\ \E p \in 1..(Len(Entries) - 1) :
            /\ Entries[p] = SequencerEntries(Entries)[r]
            /\ Entries[p + 1].index = Entries[p].index + 1

(* ------------------------------------------------------------------ *)
(* C7                                                                  *)
(* ------------------------------------------------------------------ *)

\* The type tag of a marker.
TagOf(marker) ==
  IF marker = TxTypeEIP155 THEN "EIP155"
  ELSE IF marker = TxTypeEthSign THEN "ETH_SIGN"
  ELSE TypeNull

\* C7: the entry of a slice with the ETH_SIGN marker has decoded = null and
\* type = 'ETH_SIGN'; in every entry type = null implies decoded = null; and the
\* entry of a slice with a recognised marker and no decoded payload keeps the
\* tag of its marker.
C7_EthSignRejected ==
  \A es \in {Entries} :
    /\ \A p \in 1..Len(es) : es[p].type = TypeNull => es[p].decoded = NULL
    /\ \A r \in 1..Len(reads) :
         \A e \in {SequencerEntries(es)[r]}, t \in {reads[r].slice} :
           t # << >> =>
             /\ t[1] = TxTypeEthSign => (e.decoded = NULL /\ e.type = "ETH_SIGN")
             /\ (t[1] \in {TxTypeEIP155, TxTypeEthSign} /\ e.decoded = NULL) =>
                  e.type = TagOf(t[1])

\* A batch returned with an ETH_SIGN slice that decoded with v = 1, and with an
\* EIP155 slice that was rejected.
C7_Witness ==
  /\ Parsed
  /\ \E r, q \in 1..Len(reads) :
       /\ reads[r].slice # << >>
       /\ reads[r].slice[1] = TxTypeEthSign
       /\ reads[r].lib.decode = "ok"
       /\ reads[r].lib.v = 1
       /\ SequencerEntries(Entries)[r].type = "ETH_SIGN"
       /\ reads[q].slice # << >>
       /\ reads[q].slice[1] = TxTypeEIP155
       /\ reads[q].lib.decode = "ok"
       /\ SequencerEntries(Entries)[q].decoded = NULL
       /\ SequencerEntries(Entries)[q].type = "EIP155"

(* ------------------------------------------------------------------ *)
(* C8                                                                  *)
(* ------------------------------------------------------------------ *)

\* C8: an EIP155 slice that decodes with sig.v outside {0, 1} gets decoded = null
\* whether or not its signature recovers the sender, and no entry carries a
\* decoded payload with sig.v outside {0, 1}.
C8_VOutsideRejected ==
  \A es \in {Entries} :
    /\ \A p \in 1..Len(es) :
         es[p].decoded # NULL => es[p].decoded[1].sig.v \in {0, 1}
    /\ \A r \in 1..Len(reads) :
         \A e \in {SequencerEntries(es)[r]}, t \in {reads[r].slice} :
           (/\ t # << >>
            /\ t[1] = TxTypeEIP155
            /\ reads[r].lib.decode = "ok"
            /\ reads[r].lib.v \notin {0, 1}) => e.decoded = NULL

\* A batch returned with an EIP155 slice of v = 2 whose signature recovers the
\* sender.
C8_Witness ==
  /\ Parsed
  /\ \E r \in 1..Len(reads) :
       /\ reads[r].slice # << >>
       /\ reads[r].slice[1] = TxTypeEIP155
       /\ reads[r].lib.decode = "ok"
       /\ reads[r].lib.v = 2
       /\ reads[r].lib.crypto = "ok"
       /\ reads[r].lib.recovered = reads[r].lib.from
       /\ SequencerEntries(Entries)[r].decoded = NULL
       /\ SequencerEntries(Entries)[r].type = "EIP155"

(* ------------------------------------------------------------------ *)
(* C9                                                                  *)
(* ------------------------------------------------------------------ *)

\* The chain holds the companion of the event: an event of the event's block and
\* transaction at the log index before the event's.
IsCompanion(log, ev) ==
  /\ log.blockNumber = ev.blockNumber
  /\ log.transactionHash = ev.transactionHash
  /\ log.logIndex = ev.logIndex - 1

HasCompanion == \E n \in 1..Len(chainLogs) : IsCompanion(chainLogs[n], event)

\* C9: when the lookup finds no companion event, getExtraData raises and the
\* handler goes no further: no metadata, no entry, no call to the Entry Store.
C9_NoCompanionFailsFatally ==
  ~HasCompanion =>
    /\ pc \in {"getExtraData", "failed"}
    /\ extraData = NULL
    /\ entry = NULL
    /\ transactionEntries = << >>
    /\ db = EmptyDb

\* The lookup failed on a chain that holds events of the event's transaction and
\* of its block, none at the log index before the event's.
C9_Witness ==
  /\ pc = "failed"
  /\ ~HasCompanion
  /\ \E n, m \in 1..Len(chainLogs) :
       /\ chainLogs[n].transactionHash = event.transactionHash
       /\ chainLogs[m].blockNumber = event.blockNumber
       /\ chainLogs[m].logIndex = event.logIndex - 1

(* ------------------------------------------------------------------ *)
(* C10                                                                 *)
(* ------------------------------------------------------------------ *)

\* The batch metadata of extra is that of log.
MetadataOf(extra, log) ==
  /\ extra.prevTotalElements = log.args._prevTotalElements
  /\ extra.batchIndex = log.args._batchIndex
  /\ extra.batchSize = log.args._batchSize
  /\ extra.batchRoot = log.args._batchRoot
  /\ extra.batchExtraData = log.args._extraData

\* C10: the query returns the events of the event's block and no other; and the
\* metadata getExtraData returns is that of the event of the same transaction at
\* the log index before the event's, and of no other event of the chain.
C10_CompanionSelection ==
  /\ \A n \in 1..Len(chainLogs) :
       (\E f \in 1..Len(FoundEvents) : FoundEvents[f] = chainLogs[n])
         <=> chainLogs[n].blockNumber = event.blockNumber
  /\ extraData # NULL =>
       /\ HasCompanion
       /\ \A n \in 1..Len(chainLogs) :
            MetadataOf(extraData[1], chainLogs[n]) <=> IsCompanion(chainLogs[n], event)

\* The companion was selected on a chain where an earlier event of the same
\* transaction comes first.
C10_Witness ==
  /\ extraData # NULL
  /\ Len(chainLogs) = 2
  /\ chainLogs[1].transactionHash = event.transactionHash
  /\ chainLogs[1].logIndex = event.logIndex - 2
  /\ IsCompanion(chainLogs[2], event)
  /\ MetadataOf(extraData[1], chainLogs[2])

(* ------------------------------------------------------------------ *)
(* C11                                                                 *)
(* ------------------------------------------------------------------ *)

\* storeEvent has returned.
Stored == pc = "done"

\* C11: once storeEvent has returned, the reverse lookups recorded are, in entry
\* order, one per queue-origin entry of the batch with that entry's queueIndex
\* and index; none is recorded for a sequencer entry.
C11_ReverseLookups ==
  Stored =>
    \A qs \in {QueueEntries(entry[1].transactionEntries)},
       lookups \in {db.transactionIndexByQueueIndex} :
      /\ Len(lookups) = Len(qs)
      /\ \A m \in 1..Len(qs) :
           /\ lookups[m].queueIndex = qs[m].queueIndex
           /\ lookups[m].index = qs[m].index
      /\ \A m \in 1..Len(lookups) :
           \A p \in 1..Len(entry[1].transactionEntries) :
             entry[1].transactionEntries[p].index = lookups[m].index =>
               entry[1].transactionEntries[p].queueOrigin = "l1"

\* A stored batch of a sequencer entry between two queue-origin entries.
C11_Witness ==
  /\ Stored
  /\ Len(db.transactionIndexByQueueIndex) = 2
  /\ Len(entry[1].transactionEntries) = 3
  /\ entry[1].transactionEntries[2].queueOrigin = "sequencer"

(* ------------------------------------------------------------------ *)
(* C12                                                                 *)
(* ------------------------------------------------------------------ *)

\* C12: no call to the Entry Store is made before parseEvent has returned the
\* whole batch, so a raise of getExtraData or parseEvent leaves the store
\* untouched; what the store holds of the batch is the batch entry or nothing,
\* the whole entry list or nothing, and all of it once storeEvent has returned.
C12_NoPartialPersistence ==
  /\ pc \in {"getExtraData", "parseEvent", "context", "sequenced", "queued",
             "storeEvent", "failed"} => db = EmptyDb
  /\ db # EmptyDb =>
       /\ Parsed
       /\ db.transactionBatchEntries = <<entry[1].transactionBatchEntry>>
       /\ db.transactionEntries \in {<< >>, entry[1].transactionEntries}
       /\ db.transactionIndexByQueueIndex # << >> =>
            db.transactionEntries = entry[1].transactionEntries
  /\ Stored =>
       /\ db.transactionBatchEntries = <<entry[1].transactionBatchEntry>>
       /\ db.transactionEntries = entry[1].transactionEntries

\* parseEvent raised after it had built an entry: the payload holds its first
\* context block, which declares a sequenced transaction, and the length prefix
\* of the first slice, so the first read did not raise.
C12_Witness ==
  /\ ParseFailed
  /\ db = EmptyDb
  /\ DeclaredNumContexts(Payload) >= 1
  /\ ContextsOffset + ContextSize * DeclaredNumContexts(Payload) + LenSize
       <= Len(Payload)
  /\ DeclaredContext(Payload, 1).numSequencedTransactions >= 1

(* ------------------------------------------------------------------ *)
(* C14                                                                 *)
(* ------------------------------------------------------------------ *)

\* C14: every entry is either of origin sequencer with queueIndex = null, or of
\* origin l1 with a queueIndex that is a non-negative integer; never both, never
\* neither.
C14_QueueIndexByOrigin ==
  \A es \in {Entries} :
    \A p \in 1..Len(es) :
      /\ es[p].queueOrigin \in {"sequencer", "l1"}
      /\ es[p].queueOrigin = "sequencer" => es[p].queueIndex = NULL
      /\ es[p].queueOrigin = "l1" =>
           /\ es[p].queueIndex # NULL
           /\ es[p].queueIndex[1] \in Nat

\* A batch returned with entries of both origins.
C14_Witness ==
  /\ Parsed
  /\ \E p, q \in 1..Len(Entries) :
       /\ Entries[p].queueOrigin = "sequencer"
       /\ Entries[p].queueIndex = NULL
       /\ Entries[q].queueOrigin = "l1"
       /\ Entries[q].queueIndex = Some(event.args._startingQueueIndex)

(* ------------------------------------------------------------------ *)
(* C15                                                                 *)
(* ------------------------------------------------------------------ *)

\* C15: every entry of origin l1 has type 'EIP155', decoded = null, blockNumber 0,
\* timestamp 0, and the zero address as target and as origin.
C15_QueueEntryProvisional ==
  \A es \in {Entries} :
    \A p \in 1..Len(es) :
      es[p].queueOrigin = "l1" =>
        /\ es[p].type = "EIP155"
        /\ es[p].decoded = NULL
        /\ es[p].blockNumber = 0
        /\ es[p].timestamp = 0
        /\ es[p].target = "0x0000000000000000000000000000000000000000"
        /\ es[p].origin = Some("0x0000000000000000000000000000000000000000")

\* A queue-origin entry that follows a sequencer entry with the timestamp and
\* block number of their context.
C15_Witness ==
  /\ Parsed
  /\ Len(Entries) >= 2
  /\ Entries[1].queueOrigin = "sequencer"
  /\ Entries[1].timestamp = 1000
  /\ Entries[1].blockNumber = 301
  /\ Entries[2].queueOrigin = "l1"

(* ------------------------------------------------------------------ *)
(* C16                                                                 *)
(* ------------------------------------------------------------------ *)

\* Where the read r ended: behind its length prefix and its slice.
ReadEnd(read) == read.offset + LenSize + Len(read.slice)

\* C16: the first slice is read at 15 + 16 * numContexts, every later one where
\* the slice before it ended, whatever contexts and queue-origin entries lie
\* between them; and while parseEvent runs the cursor stands where the last
\* slice ended.
C16_SharedCursor ==
  /\ \A r \in 1..Len(reads) :
       reads[r].offset =
         IF r = 1 THEN 15 + 16 * DeclaredNumContexts(Payload)
         ELSE ReadEnd(reads[r - 1])
  /\ Parsing =>
       nextTxPointer =
         IF reads = << >> THEN 15 + 16 * numContexts ELSE ReadEnd(reads[Len(reads)])

\* A batch returned with slices read in two contexts, and a queue-origin entry
\* between them.
C16_Witness ==
  /\ Parsed
  /\ Len(reads) = 2
  /\ Len(Entries) = 3
  /\ Entries[1].queueOrigin = "sequencer"
  /\ Entries[2].queueOrigin = "l1"
  /\ Entries[3].queueOrigin = "sequencer"
  /\ reads[2].offset > reads[1].offset

(* ------------------------------------------------------------------ *)
(* C18                                                                 *)
(* ------------------------------------------------------------------ *)

\* C18: the entry at position k (from 0) of the list has index
\* prevTotalElements + k, and the list returned has as many entries as the
\* contexts of the payload declare, whatever batch size the companion event
\* reports.
C18_IndexByPosition ==
  Started =>
    \A es \in {Entries} :
      /\ \A p \in 1..Len(es) : es[p].index = extraData[1].prevTotalElements + (p - 1)
      /\ Parsed => Len(es) = DeclaredTotal(Payload)

\* A batch returned with two entries where the companion event reports three.
C18_Witness ==
  /\ Parsed
  /\ Len(Entries) = 2
  /\ extraData[1].batchSize = 3
  /\ Entries[2].index = 11

(* ------------------------------------------------------------------ *)
(* C19                                                                 *)
(* ------------------------------------------------------------------ *)

\* C19: the sequencer entry at a position of context c carries the timestamp and
\* block number of context c, gas limit 8,000,000, origin = null and the batch
\* index of the batch entry; the r-th sequencer entry carries the r-th slice read
\* as its data.
C19_SequencerEntryFields ==
  Started =>
    \A layout \in {DeclaredLayout(Payload)}, es \in {Entries} :
      /\ \A p \in 1..Len(es) :
           es[p].queueOrigin = "sequencer" =>
             /\ \A ctx \in {DeclaredContext(Payload, layout[p].context)} :
                  /\ es[p].timestamp = ctx.timestamp
                  /\ es[p].blockNumber = ctx.blockNumber
             /\ es[p].gasLimit = 8000000
             /\ es[p].origin = NULL
             /\ es[p].batchIndex = extraData[1].batchIndex
             /\ Parsed => es[p].batchIndex = entry[1].transactionBatchEntry.index
      /\ \A r \in 1..Len(reads) :
           SequencerEntries(es)[r].data = ToHexString(reads[r].slice)

\* A batch returned with sequencer entries of two contexts that carry different
\* slices, neither stamped with the settlement block.
C19_Witness ==
  /\ Parsed
  /\ Len(reads) = 2
  /\ DeclaredNumContexts(Payload) = 2
  /\ SequencerEntries(Entries)[1].timestamp = 1000
  /\ SequencerEntries(Entries)[2].timestamp = 2000
  /\ SequencerEntries(Entries)[1].data # SequencerEntries(Entries)[2].data
  /\ extraData[1].timestamp \notin {1000, 2000}

(* ------------------------------------------------------------------ *)
(* C20                                                                 *)
(* ------------------------------------------------------------------ *)

\* C20: the Entry Store holds transaction entries only when it holds the batch
\* entry, and reverse lookups only when it holds the batch entry and the whole
\* entry list; every reverse lookup it holds is that of a stored queue-origin
\* entry, and the lookups stand in entry order.
C20_StoreOrder ==
  /\ db.transactionEntries # << >> => db.transactionBatchEntries # << >>
  /\ db.transactionIndexByQueueIndex # << >> =>
       /\ db.transactionBatchEntries = <<entry[1].transactionBatchEntry>>
       /\ db.transactionEntries = entry[1].transactionEntries
  /\ \A lookups \in {db.transactionIndexByQueueIndex} :
       /\ \A m \in 1..Len(lookups) :
            \E p \in 1..Len(db.transactionEntries) :
              /\ db.transactionEntries[p].index = lookups[m].index
              /\ db.transactionEntries[p].queueIndex = lookups[m].queueIndex
       /\ \A m \in 1..(Len(lookups) - 1) : lookups[m].index < lookups[m + 1].index
  /\ pc \in {"putTransactionEntries", "putTransactionIndex", "done"} =>
       db.transactionBatchEntries = <<entry[1].transactionBatchEntry>>
  /\ pc \in {"putTransactionIndex", "done"} =>
       db.transactionEntries = entry[1].transactionEntries

\* The first of two reverse lookups is recorded, the loop still running.
C20_Witness ==
  /\ pc = "putTransactionIndex"
  /\ Len(db.transactionIndexByQueueIndex) = 1
  /\ Len(QueueEntries(entry[1].transactionEntries)) = 2
  /\ k <= Len(entry[1].transactionEntries)

(* ------------------------------------------------------------------ *)
(* C17                                                                 *)
(* ------------------------------------------------------------------ *)

\* C17: for an EIP155 slice that decodes with v in {0, 1} and whose ethers calls
\* return, the entry keeps its decoded payload exactly when the address recovered
\* with the signature of v + 55, from the serialization made with that same
\* signature, is the sender parsed from that serialization; and the payload kept
\* has the v that was decoded.
C17_AcceptIffRecovered ==
  \A r \in 1..Len(reads) :
    \A e \in {SequencerEntries(Entries)[r]}, t \in {reads[r].slice},
       lib \in {reads[r].lib} :
      (/\ t # << >>
       /\ t[1] = TxTypeEIP155
       /\ lib.decode = "ok"
       /\ lib.v \in {0, 1}
       /\ lib.crypto = "ok") =>
        \A sig \in {[v |-> lib.v + 55]} :
          \A rawTx \in {SerializeTransaction([type |-> t[1]], sig)} :
            /\ e.decoded # NULL <=>
                 RecoverAddress(rawTx, sig, lib) = ParseTransaction(rawTx, lib).from
            /\ e.decoded # NULL => e.decoded[1].sig.v = lib.v

\* A batch returned with an EIP155 slice of v = 0 that was accepted, its decoded
\* payload still of v = 0.
C17_AcceptedWitness ==
  /\ Parsed
  /\ \E r \in 1..Len(reads) :
       /\ reads[r].slice # << >>
       /\ reads[r].slice[1] = TxTypeEIP155
       /\ reads[r].lib.v = 0
       /\ reads[r].lib.crypto = "ok"
       /\ SequencerEntries(Entries)[r].decoded # NULL
       /\ SequencerEntries(Entries)[r].decoded[1].sig.v = 0

(* ------------------------------------------------------------------ *)
(* C13                                                                 *)
(* ------------------------------------------------------------------ *)

\* C13: however many queue messages the other pipeline has recorded, the queue
\* loop can take its step whenever it stands at its body, and every queue-origin
\* entry of the list is the provisional entry of its position: index
\* prevTotalElements + position, queueIndex = _startingQueueIndex + the number of
\* queue-origin entries before it, and nothing taken from the Entry Store.
C13_QueueEntryNonBlocking ==
  /\ pc = "queued" => ENABLED PushQueueEntry
  /\ \A es \in {Entries} :
       \A p \in 1..Len(es) :
         es[p].queueOrigin = "l1" =>
           es[p] = [index |-> extraData[1].prevTotalElements + (p - 1),
                    batchIndex |-> extraData[1].batchIndex,
                    blockNumber |-> 0,
                    timestamp |-> 0,
                    gasLimit |-> 0,
                    target |-> "0x0000000000000000000000000000000000000000",
                    origin |-> Some("0x0000000000000000000000000000000000000000"),
                    data |-> << >>,
                    queueOrigin |-> "l1",
                    type |-> "EIP155",
                    queueIndex |->
                      Some(event.args._startingQueueIndex
                             + Len(QueueEntries(SubSeq(es, 1, p - 1)))),
                    decoded |-> NULL]

\* The queue loop is about to emit its second entry; the other pipeline has
\* recorded the queue message of the first and not that of the second.
C13_Witness ==
  /\ pc = "queued"
  /\ enqueuedCount = 1
  /\ enqueueEntries = 1
  /\ Len(QueueEntries(transactionEntries)) = 1

====
